---- MODULE Spec2Model ----
(***************************************************************************)
(* The Hydrao exporter: the collector (Collect / RefreshData), the API     *)
(* client (GetShowerheads, doHTTPGet, RefreshSession, NewSession) and the  *)
(* JSON decoding of upstream responses into the client's record buffer.    *)
(*                                                                         *)
(* Times are nanoseconds on the process clock; 0 stands for the zero       *)
(* time.Time.                                                              *)
(*                                                                         *)
(* Memory.  c.showerHeads is a []*ShowerHead that every fetch decodes      *)
(* into.  encoding/json decodes element i of a JSON array into slot i of   *)
(* the slice it is given: where the slot already holds a pointer, into the *)
(* struct it points to; where it holds nil, into a new struct.  When the   *)
(* slice is full its pointers are copied to a larger array, so slot i      *)
(* keeps pointing to the same struct whatever the capacity, until an empty *)
(* JSON array makes the decoder set the slice to a new, empty one.  recs   *)
(* holds the structs that the slots of c.showerHeads point to, by slot.    *)
(* A slice held elsewhere (the cache, a goroutine's result) either aliases *)
(* these structs (alias, with its own length) or, once c.showerHeads has   *)
(* been reset, is the only reference to structs that nothing writes any    *)
(* more, kept by value (vals).                                             *)
(***************************************************************************)
EXTENDS Integers, Sequences, FiniteSets, Bags, TLC

VARIABLES
    mainpc,                 \* main(): "boot" before NewSession, then "serving"
    now,                    \* the process clock (time.Now)
    ticks,                  \* how often the clock has advanced
    lastRefresh,            \* HydraoCollector.lastRefresh
    lastRefreshError,       \* HydraoCollector.lastRefreshError ("nil" or a kind)
    lastRefreshDuration,    \* HydraoCollector.lastRefreshDuration
    cacheLock,              \* HydraoCollector.cacheLock: [writer, readers]
    cacheTimestamp,         \* HydraoCollector.cacheTimestamp
    cachedShowerHeadsData,  \* HydraoCollector.cachedShowerHeadsData (a slice)
    showerHeads,            \* len(Client.showerHeads)
    hydrao,                 \* Client.hydrao (*SessionInfo)
    recs,                   \* the structs the slots of Client.showerHeads point to
    tasks,                  \* the RefreshData goroutines (a bag of records)
    scrape,                 \* the Collect call in progress
    hist                    \* history: launches, outcomes and session successes so far

vars == <<mainpc, now, ticks, lastRefresh, lastRefreshError, lastRefreshDuration,
          cacheLock, cacheTimestamp, cachedShowerHeadsData, showerHeads, hydrao,
          recs, tasks, scrape, hist>>

collectorVars == <<lastRefresh, lastRefreshError, lastRefreshDuration, cacheLock,
                   cacheTimestamp, cachedShowerHeadsData>>
heapVars == <<showerHeads, recs>>

(***************************************************************************)
(* Program constants and bounds                                            *)
(***************************************************************************)
refreshInterval == 10
Second == 1000000000
SafetyMargin == 100

MaxTicks == 1
MaxLaunches == 2
MaxRecords == 1

ZeroTime == 0
StartTime == 1
\* steps by which the clock is observed to advance
TickSteps == {1, refreshInterval}
\* values of the one modelled field of a record (device_uuid); 0 is ""
FieldValues == {1, 2}
\* expires_in values the upstream grants
ExpiresInValues == {101}

NilSlice == [alias |-> FALSE, len |-> 0, vals |-> <<>>]
NewTask(t) == [pc |-> "start", now |-> t, start |-> 0, tnow |-> 0, ret |-> NilSlice]
\* the metrics a scrape has sent so far that the properties below speak of
\* (the interval and refresh duration gauges are sent too)
NoScrape == [pc |-> "idle", up |-> 0, refreshTimestamp |-> 0,
             cacheTimestamp |-> 0, groups |-> <<>>]
EmptySession == [AccessToken |-> 0, RefreshToken |-> 0, ExpiresIn |-> 0,
                 TokenRefresh |-> ZeroTime]

(***************************************************************************)
(* time.Time and time.Duration                                             *)
(***************************************************************************)
IsZero(t) == t = ZeroTime

\* t.Sub(u) >= d.  Sub saturates at the largest Duration when u is the zero
\* time (year 1) and t a reading of the clock, which exceeds every d here.
SubAtLeast(t, u, d) == IF IsZero(u) THEN TRUE ELSE t - u >= d

\* t.Sub(u) > d, with the same saturation.
SubExceeds(t, u, d) == IF IsZero(u) THEN TRUE ELSE t - u > d

\* Duration.Seconds(): the whole seconds and the nanoseconds beyond them,
\* which the float64 result adds up
DurationSeconds(d) == [sec |-> d \div Second, nsec |-> d % Second]

\* convertTime: 0 for the zero time, else the time itself
convertTime(t) == IF IsZero(t) THEN 0 ELSE t

(***************************************************************************)
(* encoding/json into *[]*ShowerHead, as processHTTPResponse calls it      *)
(***************************************************************************)
\* One element of the JSON array: an object whose device_uuid member is the
\* string v, and in which another member either fits its Go type or does not
\* (bad: an UnmarshalTypeError is saved, that member is skipped, and decoding
\* goes on).
JsonElems == [v : FieldValues, bad : BOOLEAN]

RECURSIVE SeqsUpTo(_, _)
SeqsUpTo(S, n) ==
    IF n = 0 THEN {<<>>}
    ELSE LET shorter == SeqsUpTo(S, n - 1)
         IN  shorter \cup {Append(q, x) : q \in {r \in shorter : Len(r) = n - 1}, x \in S}

\* What the upstream can answer to GET /shower-heads/
GetResponses ==
    {[kind |-> k, elems |-> <<>>] : k \in {"transport", "status", "syntax"}}
        \cup {[kind |-> "body", elems |-> b] : b \in SeqsUpTo(JsonElems, MaxRecords)}

\* d.array, one iteration: element i (1-based) of the JSON array is decoded
\* into slot i.  A slot that has held a pointer still does, and the struct it
\* points to is decoded into; otherwise a new struct is allocated.
\* st = [recs, err].
DecodeElem(st, e, i) ==
    LET alloc == IF i > Len(st.recs) THEN Append(st.recs, 0) ELSE st.recs
    IN  [recs |-> [alloc EXCEPT ![i] = e.v], err |-> st.err \/ e.bad]

RECURSIVE DecodeFrom(_, _, _)
DecodeFrom(st, elems, i) ==
    IF i > Len(elems) THEN st
    ELSE DecodeFrom(DecodeElem(st, elems[i], i), elems, i + 1)

\* json.NewDecoder(body).Decode(&holder) with holder = &c.showerHeads, for
\* a body that is a JSON array: the slice's new length, the structs, whether
\* an error was saved, and whether the slice was set to a new empty one
Decode(rs, elems) ==
    LET st == DecodeFrom([recs |-> rs, err |-> FALSE], elems, 1)
    IN  IF Len(elems) = 0
        THEN [len |-> 0, recs |-> <<>>, err |-> FALSE, reset |-> TRUE]
        ELSE [len |-> Len(elems), recs |-> st.recs, err |-> st.err, reset |-> FALSE]

\* a slice of the first n structs of c.showerHeads
Alias(n) == [alias |-> TRUE, len |-> n, vals |-> <<>>]

\* the values of the records a slice holds, in order
Contents(slice, rs) == IF slice.alias THEN SubSeq(rs, 1, slice.len) ELSE slice.vals

\* a slice after c.showerHeads has been set to a new slice: it keeps its
\* structs, which c.showerHeads no longer reaches
Detached(slice, rs) ==
    IF slice.alias
    THEN [alias |-> FALSE, len |-> slice.len, vals |-> Contents(slice, rs)]
    ELSE slice

(***************************************************************************)
(* The session: POST /sessions and the staleness test of doHTTPGet         *)
(***************************************************************************)
\* What the upstream can answer to POST /sessions.  A body carries a token
\* pair and expires_in, which is a number an int16 holds ("val") or one it
\* does not ("bad": an UnmarshalTypeError, the member is skipped).
PostResponses ==
    {[kind |-> k, tok |-> 0, exp |-> [t |-> "absent", v |-> 0]] :
        k \in {"transport", "status", "syntax"}}
        \cup {[kind |-> "body", tok |-> 1, exp |-> [t |-> "val", v |-> e]] :
                e \in ExpiresInValues}
        \cup {[kind |-> "body", tok |-> 1, exp |-> [t |-> "bad", v |-> 0]]}

\* processHTTPResponse(resp, err, c.hydrao) followed by the caller's
\* c.hydrao.TokenRefresh = t0 when it returned nil
SessionPost(h, resp, t0) ==
    IF resp.kind # "body" THEN [hydrao |-> h, err |-> resp.kind]
    ELSE LET tokens == [h EXCEPT !.AccessToken = resp.tok, !.RefreshToken = resp.tok]
         IN  IF resp.exp.t = "bad" THEN [hydrao |-> tokens, err |-> "decode"]
             ELSE [hydrao |-> [tokens EXCEPT !.ExpiresIn = resp.exp.v,
                                             !.TokenRefresh = t0],
                   err |-> "nil"]

\* (mutant) the staleness test with >= in place of >
TokenStaleAtLeast(t, h) ==
    SubAtLeast(t, h.TokenRefresh, (h.ExpiresIn - SafetyMargin) * Second)

\* the condition under which doHTTPGet calls RefreshSession
TokenStale(t, h) ==
    SubExceeds(t, h.TokenRefresh, (h.ExpiresIn - SafetyMargin) * Second)

(***************************************************************************)
(* The collector's decisions                                               *)
(***************************************************************************)
\* Collect: is a refresh due at clock reading t?
RefreshDue(t, last) == SubAtLeast(t, last, refreshInterval)

\* the goroutines launched and not yet ended
InFlight == BagToSet(tasks)
NumInFlight == BagCardinality(tasks)
One(r) == SetToBag({r})
\* task r goes on as task r2 / ends
Becomes(r, r2) == (tasks (-) One(r)) (+) One(r2)
Ends(r) == tasks (-) One(r)

\* (mutant) hydrao_up reported as 0 whenever a refresh is in flight
UpValueDownWhileRefreshing(last, err) ==
    IF IsZero(last) \/ err # "nil" \/ tasks # EmptyBag THEN 0 ELSE 1

\* Collect: the value of hydrao_up
UpValue(last, err) == IF IsZero(last) \/ err # "nil" THEN 0 ELSE 1

(***************************************************************************)
(* Initial state: main() has built the client and the collector            *)
(***************************************************************************)
Init ==
    /\ mainpc = "boot"
    /\ now = StartTime
    /\ ticks = 0
    /\ lastRefresh = ZeroTime
    /\ lastRefreshError = "nil"
    /\ lastRefreshDuration = 0
    /\ cacheLock = [writer |-> FALSE, readers |-> 0]
    /\ cacheTimestamp = ZeroTime
    /\ cachedShowerHeadsData = NilSlice
    /\ showerHeads = 0
    /\ hydrao = EmptySession
    /\ recs = <<>>
    /\ tasks = EmptyBag
    /\ scrape = NoScrape
    /\ hist = [launches |-> 0, lastLaunch |-> ZeroTime, everOk |-> FALSE, committed |-> FALSE,
               lastOutcome |-> "none", snapshot |-> <<>>, sessionOk |-> FALSE]

(***************************************************************************)
(* main                                                                    *)
(***************************************************************************)
\* main: client.NewSession(); its error is logged and main goes on
NewSession(resp) ==
    /\ mainpc = "boot"
    /\ LET p == SessionPost(hydrao, resp, now)
       IN  /\ hydrao' = p.hydrao
           /\ hist' = [hist EXCEPT !.sessionOk = (p.err = "nil")]
    /\ mainpc' = "serving"
    /\ UNCHANGED <<now, ticks, collectorVars, heapVars, tasks, scrape>>

\* time passes
Tick(d) ==
    /\ mainpc = "serving"
    /\ ticks < MaxTicks
    /\ now' = now + d
    /\ ticks' = ticks + 1
    /\ UNCHANGED <<mainpc, collectorVars, heapVars, hydrao, tasks, scrape, hist>>

(***************************************************************************)
(* HydraoCollector.Collect, one scrape at a time                           *)
(***************************************************************************)
\* now := c.clock(); if the refresh is due, go c.RefreshData(now)
CollectBegin ==
    /\ mainpc = "serving"
    /\ scrape.pc = "idle"
    /\ LET due == RefreshDue(now, lastRefresh)
       IN  /\ due => hist.launches < MaxLaunches
           /\ scrape' = [scrape EXCEPT !.pc = "book"]
           /\ tasks' = IF due THEN tasks (+) One(NewTask(now)) ELSE tasks
           /\ hist' = IF due THEN [hist EXCEPT !.lastLaunch = now, !.launches = @ + 1]
                      ELSE hist
    /\ UNCHANGED <<mainpc, now, ticks, collectorVars, heapVars, hydrao>>

\* the up, refresh timestamp and refresh duration values, read without a lock
CollectBookkeeping ==
    /\ scrape.pc = "book"
    /\ scrape' = [scrape EXCEPT !.pc = "rlock",
                                !.up = UpValue(lastRefresh, lastRefreshError),
                                !.refreshTimestamp = convertTime(lastRefresh)]
    /\ UNCHANGED <<mainpc, now, ticks, collectorVars, heapVars, hydrao, tasks, hist>>

\* c.cacheLock.RLock(), then the cache timestamp and one group per cached
\* record
CollectCache ==
    /\ scrape.pc = "rlock"
    /\ ~cacheLock.writer
    /\ cacheLock' = [cacheLock EXCEPT !.readers = @ + 1]
    /\ scrape' = [scrape EXCEPT !.pc = "done",
                                !.cacheTimestamp = convertTime(cacheTimestamp),
                                !.groups = Contents(cachedShowerHeadsData, recs)]
    /\ UNCHANGED <<mainpc, now, ticks, lastRefresh, lastRefreshError, lastRefreshDuration,
                   cacheTimestamp, cachedShowerHeadsData, heapVars, hydrao, tasks, hist>>

\* the deferred c.cacheLock.RUnlock(); Collect returns
CollectReturn ==
    /\ scrape.pc = "done"
    /\ cacheLock' = [cacheLock EXCEPT !.readers = @ - 1]
    /\ scrape' = NoScrape
    /\ UNCHANGED <<mainpc, now, ticks, lastRefresh, lastRefreshError, lastRefreshDuration,
                   cacheTimestamp, cachedShowerHeadsData, heapVars, hydrao, tasks, hist>>

(***************************************************************************)
(* HydraoCollector.RefreshData, one goroutine per launch                   *)
(***************************************************************************)
\* (mutant) RefreshData taking the write lock before it fetches
RefreshBeginLocked(r) ==
    /\ r.pc = "start"
    /\ cacheLock = [writer |-> FALSE, readers |-> 0]
    /\ cacheLock' = [cacheLock EXCEPT !.writer = TRUE]
    /\ lastRefresh' = r.now
    /\ tasks' = Becomes(r, [r EXCEPT !.pc = "get", !.start = now])
    /\ UNCHANGED <<mainpc, now, ticks, lastRefreshError, lastRefreshDuration,
                   cacheTimestamp, cachedShowerHeadsData, heapVars, hydrao, scrape, hist>>

\* c.lastRefresh = now; the deferred duration function captures c.clock()
RefreshBegin(r) ==
    /\ r.pc = "start"
    /\ lastRefresh' = r.now
    /\ tasks' = Becomes(r, [r EXCEPT !.pc = "get", !.start = now])
    /\ UNCHANGED <<mainpc, now, ticks, lastRefreshError, lastRefreshDuration, cacheLock,
                   cacheTimestamp, cachedShowerHeadsData, heapVars, hydrao, scrape, hist>>

\* GetShowerheads -> doHTTPGet: the staleness test; a stale token sends the
\* renewal POST (RefreshSession reads the clock before it), a fresh one the GET
GetCheckToken(r) ==
    /\ r.pc = "get"
    /\ tasks' = Becomes(r, IF TokenStale(now, hydrao)
                           THEN [r EXCEPT !.pc = "post", !.tnow = now]
                           ELSE [r EXCEPT !.pc = "do"])
    /\ UNCHANGED <<mainpc, now, ticks, collectorVars, heapVars, hydrao, scrape, hist>>

\* RefreshData once getShowerheads has returned: the error (or nil) is
\* recorded; on an error the deferred function records the duration and the
\* goroutine ends
RefreshOutcome(r, err) ==
    /\ lastRefreshError' = err
    /\ lastRefreshDuration' = IF err = "nil" THEN lastRefreshDuration ELSE now - r.start
    /\ hist' = IF err = "nil"
               THEN [hist EXCEPT !.lastOutcome = "ok", !.everOk = TRUE]
               ELSE [hist EXCEPT !.lastOutcome = "failed"]
    /\ UNCHANGED <<lastRefresh, cacheLock, cacheTimestamp>>

\* (mutant) doHTTPGet going on to the GET after a failed renewal
GetRenewThenGet(r, resp) ==
    /\ r.pc = "post"
    /\ LET p == SessionPost(hydrao, resp, r.tnow)
       IN  /\ hydrao' = p.hydrao
           /\ hist' = [hist EXCEPT !.sessionOk = @ \/ p.err = "nil"]
    /\ tasks' = Becomes(r, [r EXCEPT !.pc = "do", !.tnow = 0])
    /\ UNCHANGED <<mainpc, now, ticks, collectorVars, heapVars, scrape>>

\* (mutant) RefreshData storing the nil result of a fetch that a failed
\* renewal aborted
GetRenewStoresNil(r, resp) ==
    /\ r.pc = "post"
    /\ LET p == SessionPost(hydrao, resp, r.tnow)
       IN  /\ hydrao' = p.hydrao
           /\ IF p.err # "nil"
              THEN /\ RefreshOutcome(r, "renewal")
                   /\ tasks' = Ends(r)
                   /\ cachedShowerHeadsData' = NilSlice
              ELSE /\ tasks' = Becomes(r, [r EXCEPT !.pc = "do", !.tnow = 0])
                   /\ hist' = [hist EXCEPT !.sessionOk = TRUE]
                   /\ UNCHANGED <<lastRefresh, lastRefreshError, lastRefreshDuration,
                                  cacheLock, cacheTimestamp, cachedShowerHeadsData>>
    /\ UNCHANGED <<mainpc, now, ticks, heapVars, scrape>>

\* the renewal POST returns; a failed renewal fails GetShowerheads
GetRenew(r, resp) ==
    /\ r.pc = "post"
    /\ LET p == SessionPost(hydrao, resp, r.tnow)
       IN  /\ hydrao' = p.hydrao
           /\ IF p.err # "nil"
              THEN /\ RefreshOutcome(r, "renewal")
                   /\ tasks' = Ends(r)
              ELSE /\ tasks' = Becomes(r, [r EXCEPT !.pc = "do", !.tnow = 0])
                   /\ hist' = [hist EXCEPT !.sessionOk = TRUE]
                   /\ UNCHANGED <<lastRefresh, lastRefreshError, lastRefreshDuration,
                                  cacheLock, cacheTimestamp>>
    /\ UNCHANGED <<mainpc, now, ticks, cachedShowerHeadsData, heapVars, scrape>>

\* GetShowerheads from the GET's answer on: processHTTPResponse checks the
\* status and decodes the body into c.showerHeads; the result is the error
\* kind ("nil" for none), the slice returned and c.showerHeads afterwards.
GetShowerheadsResult(resp) ==
    IF resp.kind # "body"
    THEN [err |-> IF resp.kind = "syntax" THEN "decode" ELSE resp.kind,
          len |-> showerHeads, recs |-> recs, reset |-> FALSE, ret |-> NilSlice]
    ELSE LET d == Decode(recs, resp.elems)
         IN  [err |-> IF d.err THEN "decode" ELSE "nil",
              len |-> d.len, recs |-> d.recs, reset |-> d.reset,
              ret |-> IF d.err \/ d.reset THEN NilSlice ELSE Alias(d.len)]

\* the goroutines other than r, their results detached from c.showerHeads
OthersDetached(r) ==
    LET others == tasks (-) One(r)
        old == BagToSet(others)
        Moved(x) == [x EXCEPT !.ret = Detached(x.ret, recs)]
    IN  [y \in {Moved(x) : x \in old} |-> others[CHOOSE x \in old : Moved(x) = y]]

\* the device-records GET returns; RefreshData records the outcome
GetRecords(r, resp) ==
    /\ r.pc = "do"
    /\ LET g == GetShowerheadsResult(resp)
           others == IF g.reset THEN OthersDetached(r) ELSE tasks (-) One(r)
       IN  /\ RefreshOutcome(r, g.err)
           /\ showerHeads' = g.len
           /\ recs' = g.recs
           /\ cachedShowerHeadsData' = IF g.reset
                                       THEN Detached(cachedShowerHeadsData, recs)
                                       ELSE cachedShowerHeadsData
           /\ tasks' = IF g.err = "nil"
                       THEN others (+) One([r EXCEPT !.pc = "lock", !.ret = g.ret])
                       ELSE others
    /\ UNCHANGED <<mainpc, now, ticks, hydrao, scrape>>

\* c.cacheLock.Lock()
RefreshLock(r) ==
    /\ r.pc = "lock"
    /\ cacheLock = [writer |-> FALSE, readers |-> 0]
    /\ cacheLock' = [cacheLock EXCEPT !.writer = TRUE]
    /\ tasks' = Becomes(r, [r EXCEPT !.pc = "commit"])
    /\ UNCHANGED <<mainpc, now, ticks, lastRefresh, lastRefreshError, lastRefreshDuration,
                   cacheTimestamp, cachedShowerHeadsData, heapVars, hydrao, scrape, hist>>

\* the two assignments under the lock, the deferred Unlock and the deferred
\* duration function; the goroutine ends
RefreshCommit(r) ==
    /\ r.pc = "commit"
    /\ cachedShowerHeadsData' = r.ret
    /\ tasks' = Ends(r)
    /\ cacheTimestamp' = r.now
    /\ cacheLock' = [cacheLock EXCEPT !.writer = FALSE]
    /\ lastRefreshDuration' = now - r.start
    /\ hist' = [hist EXCEPT !.committed = TRUE,
                            !.snapshot = Contents(r.ret, recs)]
    /\ UNCHANGED <<mainpc, now, ticks, lastRefresh, lastRefreshError, heapVars, hydrao,
                   scrape>>

Next ==
    \/ \E resp \in PostResponses : NewSession(resp)
    \/ \E d \in TickSteps : Tick(d)
    \/ CollectBegin
    \/ CollectBookkeeping
    \/ CollectCache
    \/ CollectReturn
    \/ \E r \in InFlight : RefreshBegin(r)
    \/ \E r \in InFlight : GetCheckToken(r)
    \/ \E r \in InFlight, resp \in PostResponses : GetRenew(r, resp)
    \/ \E r \in InFlight, resp \in GetResponses : GetRecords(r, resp)
    \/ \E r \in InFlight : RefreshLock(r)
    \/ \E r \in InFlight : RefreshCommit(r)

Spec == Init /\ [][Next]_vars

(***************************************************************************)
(* A second specification for the session's clock arithmetic: the same     *)
(* program, with idle stretches long enough for a token to age.            *)
(***************************************************************************)
\* no scrape arrives for a long time (one such stretch in a run)
Idle(d) ==
    /\ mainpc = "serving"
    /\ ticks = 0
    /\ now < Second
    /\ scrape.pc = "idle"
    /\ tasks = EmptyBag
    /\ now' = now + d
    /\ UNCHANGED <<mainpc, ticks, collectorVars, heapVars, hydrao, tasks, scrape, hist>>

\* the idle stretches that end one tick before a granted lifetime, less the
\* safety margin, has passed
IdleSteps == {(e - SafetyMargin) * Second - 1 : e \in ExpiresInValues}

NextRenewal ==
    \/ Next
    \/ \E d \in IdleSteps : Idle(d)

SpecRenewal == Init /\ [][NextRenewal]_vars

(***************************************************************************)
(* A third specification for the loop of Collect over the cached records   *)
(* and collectShowerHeadData: it starts after a first refresh has          *)
(* committed, with a scrape that holds the read lock and is about to range *)
(* over the cache.  Here a record carries the fields collectShowerHeadData *)
(* reads, and scrape is [pc, i, sent]: the loop index and the metrics sent *)
(* on the channel so far.                                                  *)
(***************************************************************************)
MaxThresholds == 1
MaxShowers == 1

\* json.Unmarshal([]byte(showerhead.ThresholdRequest), &thresholds): whether
\* it returned nil, and the entries it left in thresholds (none after a
\* syntax error, possibly some after a type error)
ThresholdDocs == [ok : BOOLEAN, n : 0..MaxThresholds]

\* a cached record: device_uuid, the embedded threshold document, and the
\* number of showers it lists
CachedRecords == [uuid : FieldValues, doc : ThresholdDocs, showers : 0..MaxShowers]

\* the gauges sent for a device, and for each of its showers, in order
DeviceDescs == <<"device", "updated", "ref_shower_duration", "ref_flow", "avg_flow",
                 "last_sync_is_complete">>
ShowerDescs == <<"flow", "duration", "temperature", "volume", "soaping_time">>

\* the metrics of the device gauges, of the threshold entries and of the
\* showers of record sh, the j-th of the cache
DeviceMetrics(sh, j) ==
    [k \in 1..Len(DeviceDescs) |-> [desc |-> DeviceDescs[k], rec |-> j, dev |-> sh.uuid, idx |-> 0]]
ThresholdMetrics(sh, j) ==
    [k \in 1..sh.doc.n |-> [desc |-> "threshold_request", rec |-> j, dev |-> sh.uuid, idx |-> k]]
ShowerMetrics(sh, j) ==
    [k \in 1..(Len(ShowerDescs) * sh.showers) |->
        [desc |-> ShowerDescs[((k - 1) % Len(ShowerDescs)) + 1], rec |-> j, dev |-> sh.uuid,
         idx |-> ((k - 1) \div Len(ShowerDescs)) + 1]]

\* (mutant) collectShowerHeadData returning when the unmarshal fails
collectShowerHeadDataReturnsOnError(sh, j) ==
    IF sh.doc.ok
    THEN DeviceMetrics(sh, j) \o ThresholdMetrics(sh, j) \o ShowerMetrics(sh, j)
    ELSE DeviceMetrics(sh, j)

\* collectShowerHeadData: an unmarshal error is logged and the function
\* goes on with whatever thresholds holds
collectShowerHeadData(sh, j) ==
    DeviceMetrics(sh, j) \o ThresholdMetrics(sh, j) \o ShowerMetrics(sh, j)

InitCollect ==
    /\ mainpc = "serving"
    /\ now = StartTime
    /\ ticks = 0
    /\ lastRefresh = StartTime
    /\ lastRefreshError = "nil"
    /\ lastRefreshDuration = 0
    /\ cacheLock = [writer |-> FALSE, readers |-> 1]
    /\ cacheTimestamp = StartTime
    /\ recs \in SeqsUpTo(CachedRecords, MaxRecords + 1)
    /\ showerHeads = Len(recs)
    /\ cachedShowerHeadsData = IF Len(recs) = 0 THEN NilSlice ELSE Alias(Len(recs))
    /\ hydrao = [AccessToken |-> 1, RefreshToken |-> 1, ExpiresIn |-> 101,
                 TokenRefresh |-> StartTime]
    /\ tasks = EmptyBag
    /\ scrape = [pc |-> "range", i |-> 1, sent |-> <<>>]
    /\ hist = [launches |-> 1, lastLaunch |-> StartTime, everOk |-> TRUE, committed |-> TRUE,
               lastOutcome |-> "ok", snapshot |-> recs, sessionOk |-> TRUE]

\* one iteration of the range over c.cachedShowerHeadsData
CollectShowerHead ==
    /\ scrape.pc = "range"
    /\ scrape.i <= cachedShowerHeadsData.len
    /\ LET cached == Contents(cachedShowerHeadsData, recs)
       IN  scrape' = [scrape EXCEPT !.i = @ + 1,
                                    !.sent = @ \o collectShowerHeadData(cached[scrape.i], scrape.i)]
    /\ UNCHANGED <<mainpc, now, ticks, collectorVars, heapVars, hydrao, tasks, hist>>

\* the range is over; the deferred RUnlock; Collect returns
CollectRangeEnd ==
    /\ scrape.pc = "range"
    /\ scrape.i > cachedShowerHeadsData.len
    /\ scrape' = [scrape EXCEPT !.pc = "returned"]
    /\ cacheLock' = [cacheLock EXCEPT !.readers = @ - 1]
    /\ UNCHANGED <<mainpc, now, ticks, lastRefresh, lastRefreshError, lastRefreshDuration,
                   cacheTimestamp, cachedShowerHeadsData, heapVars, hydrao, tasks, hist>>

NextCollect ==
    \/ CollectShowerHead
    \/ CollectRangeEnd

SpecCollect == InitCollect /\ [][NextCollect]_vars

(***************************************************************************)
(* Properties                                                              *)
(***************************************************************************)
\* the Snapshot as a reader sees it: the timestamp and the records' values
SnapshotView == [ts |-> cacheTimestamp, recs |-> Contents(cachedShowerHeadsData, recs)]

\* steps of Collect and RefreshData, recognised from outside
BeginStep == scrape.pc = "idle" /\ scrape'.pc = "book"
BookkeepingStep == scrape.pc = "book" /\ scrape'.pc = "rlock"
CacheStep == scrape.pc = "rlock" /\ scrape'.pc = "done"
FetchFailsStep == \E r \in InFlight : r.pc \in {"post", "do"} /\ tasks' = Ends(r)

\* C1 (as claimed): single-flight. In every reachable state at most one
\* refresh task has been launched and has not yet finished.
C1_SingleFlight == NumInFlight <= 1

\* C2 (as claimed): when a scrape evaluates the interval condition, the latest
\* launch has been recorded as the last attempt, and a scrape less than the
\* refresh interval after a launching scrape launches nothing.
C2_LaunchRecorded ==
    [][(BeginStep /\ ~IsZero(hist.lastLaunch))
          => /\ lastRefresh = hist.lastLaunch
             /\ (now - hist.lastLaunch < refreshInterval => tasks' = tasks)]_vars

\* C3 (as claimed): the step in which a refresh task's fetch fails leaves the
\* cache timestamp, the cached sequence and every cached record as they were.
C3_FailedRefreshKeepsSnapshot == [][FetchFailsStep => SnapshotView' = SnapshotView]_vars

\* C4 (as claimed): the cached records keep the values they were committed
\* with until a refresh task replaces the snapshot under the write lock.
C4_SnapshotImmutable == Contents(cachedShowerHeadsData, recs) = hist.snapshot

\* C5 (as claimed): the cache timestamp a scrape reports is never newer than
\* the last-refresh timestamp the same scrape reports.
C5_ConsistentPair == scrape.pc = "done" => scrape.cacheTimestamp <= scrape.refreshTimestamp

\* C6: the cache write lock is held only by a task that is past its fetch and
\* at the assignment of the new snapshot, and while no task is at that
\* assignment (whatever upstream calls are in progress) a scrape under way can
\* take its next step.
C6_ScrapeNeverWaitsOnIO ==
    /\ cacheLock.writer => \E r \in InFlight : r.pc = "commit"
    /\ (\A r \in InFlight : r.pc # "commit")
          => /\ scrape.pc = "book" => ENABLED CollectBookkeeping
             /\ scrape.pc = "rlock" => ENABLED CollectCache
             /\ scrape.pc = "done" => ENABLED CollectReturn

\* a scrape has read the cache while a fetch was waiting for the upstream
C6_Witness ==
    /\ scrape.pc = "done"
    /\ hist.committed
    /\ \E r \in InFlight : r.pc \in {"post", "do"}

\* C7 (as claimed): a scrape reports up = 0 as long as no refresh has ever
\* succeeded.
C7_DownBeforeFirstSuccess ==
    (scrape.pc \in {"rlock", "done"} /\ ~hist.everOk) => scrape.up = 0

\* C8 (as claimed): while the latest refresh outcome is a failure, a scrape
\* reports up = 0 and emits the groups of the last committed snapshot.
C8_StaleServe ==
    [][hist.lastOutcome = "failed"
          => /\ BookkeepingStep => scrape'.up = 0
             /\ CacheStep => scrape'.groups = hist.snapshot]_vars

\* C9: once a refresh has committed, a scrape reports up = 1 unless a refresh
\* has failed since the latest success, also while a new refresh is in flight.
C9_UpStaysOne ==
    [][(BookkeepingStep /\ hist.committed /\ hist.lastOutcome = "ok")
          => scrape'.up = 1]_vars

\* a scrape has reported up = 1 while a refresh launched after the committed
\* one is waiting for the upstream
C9_Witness ==
    /\ scrape.pc = "rlock"
    /\ scrape.up = 1
    /\ hist.committed
    /\ hist.lastOutcome = "ok"
    /\ \E r \in InFlight : r.pc \in {"post", "do"} /\ r.now > cacheTimestamp

\* tokenLifetime - 100 s, the span doHTTPGet compares now - lastRenewed with
Threshold == (hydrao.ExpiresIn - SafetyMargin) * Second
RenewsStep ==
    \E r \in InFlight : r.pc = "get" /\ tasks' = Becomes(r, [r EXCEPT !.pc = "post",
                                                                     !.tnow = now])
SkipsStep == \E r \in InFlight : r.pc = "get" /\ tasks' = Becomes(r, [r EXCEPT !.pc = "do"])

\* C10 (as claimed): before an authorized GET the token is renewed if and only
\* if elapsed >= tokenLifetime - 100 s.
C10_RenewIffAtLeast ==
    [][LET atLeast == IsZero(hydrao.TokenRefresh)
                       \/ now - hydrao.TokenRefresh >= Threshold
       IN  (RenewsStep => atLeast) /\ (SkipsStep => ~atLeast)]_vars

\* C10 (amended): before an authorized GET the token is renewed if and only
\* if elapsed > tokenLifetime - 100 s.
C10_RenewIffExceeds ==
    [][LET exceeds == IsZero(hydrao.TokenRefresh)
                       \/ now - hydrao.TokenRefresh > Threshold
       IN  (RenewsStep => exceeds) /\ (SkipsStep => ~exceeds)]_vars

\* a fetch has gone on to the GET without renewing, at elapsed =
\* tokenLifetime - 100 s exactly
C10_Witness ==
    /\ ~IsZero(hydrao.TokenRefresh)
    /\ now - hydrao.TokenRefresh = Threshold
    /\ \E r \in InFlight : r.pc = "do" /\ r.start = now

\* the step in which a task's renewal POST comes back failed
RenewalFailsStep ==
    \E r \in InFlight, resp \in PostResponses :
        /\ r.pc = "post"
        /\ SessionPost(hydrao, resp, r.tnow).err # "nil"
        /\ GetRenew(r, resp)

\* C11 (as claimed): after a failed renewal the task goes on to the authorized
\* GET.
C11_GetAfterFailedRenewal ==
    [][RenewalFailsStep
          => \E r \in InFlight :
                 r.pc = "post" /\ tasks' = Becomes(r, [r EXCEPT !.pc = "do", !.tnow = 0])]_vars

\* C11 (amended): after a failed renewal the authorized GET is not sent: no
\* task is at the GET that was not there before, and the error recorded for
\* the fetch is the renewal's.
C11_NoGetAfterFailedRenewal ==
    [][RenewalFailsStep
          => /\ \A r \in InFlight' : r.pc = "do" => r \in InFlight
             /\ NumInFlight' = NumInFlight - 1
             /\ lastRefreshError' = "renewal"]_vars

\* a renewal of a session that held a token has failed, and the fetch ended
\* with the renewal's error
C11_Witness ==
    /\ hist.sessionOk
    /\ hydrao.AccessToken # 0
    /\ now - hydrao.TokenRefresh > Threshold
    /\ lastRefreshError = "renewal"
    /\ tasks = EmptyBag

\* C12: the step in which a renewal fails ends the task, records the
\* renewal's error as the last refresh error, leaves the cache timestamp, the
\* cached records and the record buffer as they were, and leaves main serving
\* and the scrape in progress where it was.
C12_RenewalFailureAborts ==
    [][RenewalFailsStep
          => /\ \E r \in InFlight : r.pc = "post" /\ tasks' = Ends(r)
             /\ lastRefreshError' = "renewal"
             /\ hist'.lastOutcome = "failed"
             /\ SnapshotView' = SnapshotView
             /\ cachedShowerHeadsData' = cachedShowerHeadsData
             /\ heapVars' = heapVars
             /\ mainpc' = "serving"
             /\ scrape' = scrape /\ cacheLock' = cacheLock]_vars

\* after a committed refresh a later one was aborted by a failed renewal, and
\* a scrape has since served the committed snapshot with up = 0
C12_Witness ==
    /\ hist.committed
    /\ lastRefreshError = "renewal"
    /\ lastRefresh > cacheTimestamp
    /\ tasks = EmptyBag
    /\ scrape.pc = "done"
    /\ scrape.up = 0
    /\ scrape.groups = hist.snapshot
    /\ Len(scrape.groups) > 0

\* the step in which NewSession or RefreshSession returns an error
SessionFailsStep ==
    \/ \E resp \in PostResponses :
           SessionPost(hydrao, resp, now).err # "nil" /\ NewSession(resp)
    \/ RenewalFailsStep

\* C13 (as claimed): a failed NewSession or RefreshSession leaves the access
\* token, the refresh token, the expiry duration and the last-renewed
\* timestamp as they were.
C13_FailedSessionUnchanged == [][SessionFailsStep => hydrao' = hydrao]_vars

\* C14 (as claimed): the last-renewed timestamp never decreases.
C14_TokenRefreshMonotonic == [][hydrao'.TokenRefresh >= hydrao.TokenRefresh]_vars

\* C15 (as claimed): the access token is non-empty only if a NewSession or a
\* RefreshSession has returned without an error.
C15_TokenOnlyAfterSuccess == hydrao.AccessToken # 0 => hist.sessionOk

\* how far a task has come: it has sent its renewal POST once it is past
\* "post", and its GET once it is at "do" or past it
Rank(pc) ==
    CASE pc = "start" -> 0 [] pc = "get" -> 1 [] pc = "post" -> 2
      [] pc = "do" -> 3 [] pc = "lock" -> 4 [] pc = "commit" -> 5
PcSet == {"start", "get", "post", "do", "lock", "commit"}
\* the number of tasks in bag b that are at pc
CountPc(b, pc) == BagCardinality([x \in {y \in BagToSet(b) : y.pc = pc} |-> b[x]])
LaunchStep == \A pc \in PcSet : CountPc(tasks', pc) = CountPc(tasks, pc) + (IF pc = "start" THEN 1 ELSE 0)
EndStep(p) == \A pc \in PcSet : CountPc(tasks', pc) = CountPc(tasks, pc) - (IF pc = p THEN 1 ELSE 0)
MoveStep(p, q) ==
    \A pc \in PcSet : CountPc(tasks', pc) = CountPc(tasks, pc) - (IF pc = p THEN 1 ELSE 0)
                                                           + (IF pc = q THEN 1 ELSE 0)
\* every change of the tasks is a launch by a scrape that found the refresh
\* due, one task moving forward, or one task ending
TasksOnlyAdvance ==
    \/ \A pc \in PcSet : CountPc(tasks', pc) = CountPc(tasks, pc)
    \/ BeginStep /\ RefreshDue(now, lastRefresh) /\ LaunchStep
    \/ \E p \in PcSet : CountPc(tasks, p) > 0 /\ EndStep(p)
    \/ \E p, q \in PcSet : CountPc(tasks, p) > 0 /\ Rank(q) > Rank(p) /\ MoveStep(p, q)

\* C16 (as claimed): a task sends at most one renewal POST and at most one
\* GET and then ends, tasks are launched only by a scrape that finds the
\* refresh due, and when a refresh fails no task is left that is still to
\* send a request.
C16_NoRetry ==
    [][/\ TasksOnlyAdvance
       /\ FetchFailsStep => \A r \in InFlight' : r.pc \notin {"start", "get", "post"}]_vars

\* the step in which a task stores its result in the cache and ends
CommitStep == \E r \in InFlight : r.pc = "commit" /\ EndStep("commit")

\* C17 (as claimed), the scenario's steps with interval = 10 s: the cache
\* timestamp that scrapes report after a refresh is the time at which the
\* refresh completed, and a scrape less than 10 s after the last attempt
\* launches no refresh.
C17_Scenario ==
    [][/\ CommitStep => cacheTimestamp' = now
       /\ (BeginStep /\ ~IsZero(lastRefresh) /\ (now - lastRefresh) \div Second < 10)
             => ~LaunchStep]_vars

\* the metrics sent so far for cached record j under descriptor d, for its
\* shower (or threshold entry) idx
SentFor(j, d, idx) ==
    {k \in DOMAIN scrape.sent :
        scrape.sent[k].rec = j /\ scrape.sent[k].desc = d /\ scrape.sent[k].idx = idx}

\* C18: for every record the range has passed, whatever its threshold
\* document was, each device gauge and each gauge of each of its showers has
\* been sent exactly once, and the range can always go on until Collect
\* returns.
C18_ThresholdErrorContained ==
    /\ \A j \in 1..(scrape.i - 1) :
          /\ \A k \in DOMAIN DeviceDescs : Cardinality(SentFor(j, DeviceDescs[k], 0)) = 1
          /\ \A k \in DOMAIN ShowerDescs, n \in 1..recs[j].showers :
                Cardinality(SentFor(j, ShowerDescs[k], n)) = 1
    /\ scrape.pc = "range" => ENABLED NextCollect

\* Collect has returned from a cache of two records, one with a malformed
\* threshold document and a shower, the other with a well-formed document
C18_Witness ==
    /\ scrape.pc = "returned"
    /\ \E j, k \in DOMAIN recs :
          /\ j # k
          /\ ~recs[j].doc.ok /\ recs[j].showers > 0
          /\ recs[k].doc.ok /\ recs[k].doc.n > 0

\* a step that writes a bookkeeping field
BookkeepingWriteStep ==
    \/ lastRefresh' # lastRefresh
    \/ lastRefreshError' # lastRefreshError
    \/ lastRefreshDuration' # lastRefreshDuration

\* C19 (as claimed): a scrape reads the bookkeeping fields only while it
\* holds the read lock, and a refresh task writes them only while it holds
\* the write lock.
C19_LockDiscipline ==
    [][/\ BookkeepingStep => cacheLock.readers > 0
       /\ BookkeepingWriteStep => cacheLock.writer]_vars

\* the tasks that are inside the client: at the staleness test, waiting for
\* the renewal POST, or waiting for the GET and decoding its answer
InClient == CountPc(tasks, "get") + CountPc(tasks, "post") + CountPc(tasks, "do")

\* C20 (as claimed): at no time are two executions of the client's
\* session-touching operations in progress.
C20_SessionSerialized == InClient <= 1

\* C21 (as claimed): the cache timestamp never decreases: no commit replaces
\* a snapshot by one launched earlier.
C21_CacheTimestampMonotonic == [][cacheTimestamp' >= cacheTimestamp]_vars

\* C22 (as claimed): a scrape less than 10 seconds after the last recorded
\* refresh attempt launches no refresh task, and the refresh interval a
\* scrape exports is 10 seconds.
C22_IntervalTenSeconds ==
    [][/\ (BeginStep /\ ~IsZero(lastRefresh) /\ DurationSeconds(now - lastRefresh).sec < 10)
             => ~LaunchStep
       /\ BookkeepingStep => DurationSeconds(refreshInterval) = [sec |-> 10, nsec |-> 0]]_vars

\* the step in which a task evaluates the staleness test of doHTTPGet
CheckTokenStep == RenewsStep \/ SkipsStep

\* C23 (as claimed): NewSession runs once, at startup, and main goes on
\* whatever it returns; afterwards the session changes only when a task's
\* renewal POST returns; and as long as neither NewSession nor a renewal has
\* succeeded the session is empty and every fetch goes for a renewal.
C23_AuthenticateOnce ==
    [][/\ mainpc = "boot" => mainpc' = "serving"
       /\ mainpc = "serving" => mainpc' = "serving"
       /\ (mainpc = "serving" /\ hydrao' # hydrao) => \E r \in InFlight : r.pc = "post"
       /\ ~hist'.sessionOk => hydrao' = EmptySession
       /\ (~hist.sessionOk /\ CheckTokenStep) => RenewsStep]_vars

====
